---- MODULE Spec2Model ----
(***************************************************************************)
(* Verification model of the Musinsa crawler                               *)
(* (src/database/musinsa_crawler.py): the collection loop of               *)
(* crawl_musinsa, the field extractor extract_product_info and the         *)
(* per-category caller in __main__.                                        *)
(*                                                                         *)
(* The browser is a live collaborator: an item handle is an opaque         *)
(* reference and every find_element / get_attribute on it reads the        *)
(* page as it is at that moment.  The value a lookup returns is therefore  *)
(* chosen when the lookup is made, never when the handle is scanned.       *)
(***************************************************************************)
EXTENDS Integers, Sequences, FiniteSets, TLC

\* ------------------------------------------------------------------ bounds
NumKeys == 2
MaxTarget == 2
MaxScanLen == 2
MaxFragments == 3
MaxSrcLen == 2
MaxGolden == 2
MaxWorkers == 2
MaxProgressScan == 11
MaxProgressInvalid == 1
MaxImages == 2

\* ------------------------------------------------------- program constants
StallThreshold == 10
ScrollIncrement == 2000
ProgressEvery == 10

\* ------------------------------------------------------------------ values
\* Python's None, and the two ways a lookup can fail: the exception every
\* field lookup catches, and any other exception (stale element, dead
\* session), which no field lookup catches.
None == "None"
NoSuchElement == "NoSuchElementException"
Raised == "WebDriverException"

KeyPool == <<"u1", "u2", "u3", "u4">>
Keys == {KeyPool[i] : i \in 1..NumKeys}
FragmentPool == <<"-10%", "9,900", "12,000", "1+1">>
Fragments == {FragmentPool[i] : i \in 1..2}

\* What a lookup of the link's href can give.
LinkReads == Keys \cup {None, NoSuchElement, Raised}

\* Python truthiness of an optional string.
Truthy(v) == v # None /\ v # ""

VARIABLES
    pc,                 \* position of the run in crawl_musinsa / __main__
    max_items,          \* parameter max_items
    driver,             \* "none" | "open" | "quit"
    quit_calls,         \* number of driver.quit() calls
    products,           \* list products
    collected_urls,     \* set collected_urls
    collected_count,    \* int collected_count
    no_new_items_count, \* int no_new_items_count
    new_items_found,    \* int new_items_found
    n_items,            \* len(items) of the current scan
    idx,                \* 1-based position of the for loop in items
    product_url,        \* local product_url of the loop body
    product_data,       \* local product_data of the loop body
    current_scroll,     \* local current_scroll: last position the page reported
    target_position,    \* last position handed to window.scrollTo
    output_file,        \* content of output_file
    fault_caught,       \* the handler of line 233 has run
    outcome,            \* which exit the while loop took
    caller_report,      \* what __main__ printed for the category
    ex_item,            \* extract_product_info: the item it is applied to
    ex_result,          \* extract_product_info: what it returned
    nav_after_quit,     \* history: a driver call was made on a closed session
    scan_base,          \* history: len(products) when the current scan began
    empty_scans,        \* history: consecutive latest scans that added nothing
    valid_seen,         \* history: keys of the valid handles read so far
    diverged,           \* history: two lookups of one handle disagreed
    handle_class,       \* history: what the handle just processed was
    main_pc,            \* position of main in download_golden_images
    in_file,            \* the JSON file at in_path
    data,               \* list data
    force,              \* args.force
    concurrency,        \* args.concurrency
    tasks,              \* the item handed to each submitted _download_one
    task_pc,            \* position of each _download_one call
    task_err,           \* second component of each call's result
    files,              \* {out_dir}/{idx}.jpg by idx
    parts,              \* {out_dir}/{idx}.part by idx
    requested,          \* the idx values a request was made for
    errors,             \* list errors, as the set of its idx values
    main_ret,           \* return value of main, -1 before it returns
    img_pc,             \* position of download_all in download_images
    items,              \* the list of one category of db
    pos,                \* 1-based position of iter_images in items
    total,              \* int total
    saved,              \* int saved
    out_files,          \* the files of cat_dir: idx, ext and the writer's pos
    skips               \* history: positions skipped at lines 78-79

vars == <<pc, max_items, driver, quit_calls, products, collected_urls,
          collected_count, no_new_items_count, new_items_found, n_items, idx,
          product_url, product_data, target_position, current_scroll,
          output_file, fault_caught, outcome, caller_report, ex_item,
          ex_result, nav_after_quit, scan_base, empty_scans, valid_seen,
          diverged, handle_class, main_pc, in_file, data, force, concurrency,
          tasks, task_pc, task_err, files, parts, requested, errors, main_ret,
          img_pc, items, pos, total, saved, out_files, skips>>

crawlVars == <<max_items, driver, quit_calls, products, collected_urls,
               collected_count, no_new_items_count, new_items_found, n_items,
               idx, product_url, product_data, target_position, current_scroll,
               output_file, fault_caught, outcome, caller_report>>

exVars == <<ex_item, ex_result>>

histVars == <<nav_after_quit, scan_base, empty_scans, valid_seen, diverged,
              handle_class>>

goldenVars == <<main_pc, in_file, data, force, concurrency, tasks, task_pc,
                task_err, files, parts, requested, errors, main_ret>>

imageVars == <<img_pc, items, pos, total, saved, out_files, skips>>

\* ---------------------------------------------------- extract_product_info
\* The rendered item as the five lookups of extract_product_info find it:
\*   link   href of a.sc-cOpnSz.keqfmf, None, or NoSuchElement
\*   brand  text, or NoSuchElement
\*   name   text, or NoSuchElement
\*   prices the texts of the price spans, in document order
\*   img    src as a sequence of characters, NoneSrc, or NoSuchSrc
\*   raises a lookup raises something other than NoSuchElementException

\* split('?')[0]: the characters before the first '?'.
RECURSIVE BeforeQuery(_)
BeforeQuery(s) ==
    IF s = <<>> THEN <<>>
    ELSE IF Head(s) = "?" THEN <<>>
    ELSE <<Head(s)>> \o BeforeQuery(Tail(s))

HasQuery(s) == \E i \in 1..Len(s) : s[i] = "?"

\* An image source is a sequence of characters; in that type None and the
\* failed lookup are the one-element sequences below, which no source is.
NoneSrc == <<None>>
NoSuchSrc == <<NoSuchElement>>

\* rsplit('?', 1)[0]: the characters before the last '?'.
RECURSIVE BeforeLastQuery(_)
BeforeLastQuery(s) ==
    IF s = <<>> THEN <<>>
    ELSE IF s[Len(s)] = "?" THEN SubSeq(s, 1, Len(s) - 1)
    ELSE BeforeLastQuery(SubSeq(s, 1, Len(s) - 1))

\* lines 103-112 with the source cut at its last '?'.
ImageOfLastQuery(img) ==
    IF img = NoSuchSrc THEN NoneSrc
    ELSE IF img = NoneSrc THEN NoneSrc
    ELSE IF img # <<>> /\ HasQuery(img) THEN BeforeLastQuery(img)
    ELSE img

\* lines 103-112
ImageOf(img) ==
    IF img = NoSuchSrc THEN NoneSrc
    ELSE IF img = NoneSrc THEN NoneSrc
    ELSE IF img # <<>> /\ HasQuery(img) THEN BeforeQuery(img)
    ELSE img

\* lines 94-97 with the two indices exchanged: the discount rate is kept.
PriceOfFirstSpan(prices) ==
    IF Len(prices) >= 2 THEN prices[1]
    ELSE IF Len(prices) = 1 THEN prices[1]
    ELSE None

\* lines 90-101
PriceOf(prices) ==
    IF Len(prices) >= 2 THEN prices[2]
    ELSE IF Len(prices) = 1 THEN prices[1]
    ELSE None

\* lines 69-88: find_element + attribute/text, NoSuchElementException -> None
FieldOf(v) == IF v = NoSuchElement THEN None ELSE v

\* lines 65-114 with one try block around the five lookups: the first
\* missing element ends the extraction and the later fields stay unset.
ExtractOneTry(item) ==
    IF item.raises
    THEN [raised |-> TRUE,
          data |-> [product_url |-> None, brand_name |-> None,
                    product_name |-> None, price |-> None,
                    image_url |-> NoneSrc]]
    ELSE LET ok1 == item.link # NoSuchElement
             ok2 == ok1 /\ item.brand # NoSuchElement
             ok3 == ok2 /\ item.name # NoSuchElement
         IN [raised |-> FALSE,
             data |-> [product_url |-> FieldOf(item.link),
                       brand_name |->
                           IF ok1 THEN FieldOf(item.brand) ELSE None,
                       product_name |->
                           IF ok2 THEN FieldOf(item.name) ELSE None,
                       price |->
                           IF ok3 THEN PriceOf(item.prices) ELSE None,
                       image_url |->
                           IF ok3 THEN ImageOf(item.img) ELSE NoneSrc]]

\* lines 65-114.  raised: an exception left the function.
ExtractProductInfo(item) ==
    IF item.raises
    THEN [raised |-> TRUE,
          data |-> [product_url |-> None, brand_name |-> None,
                    product_name |-> None, price |-> None,
                    image_url |-> NoneSrc]]
    ELSE [raised |-> FALSE,
          data |-> [product_url |-> FieldOf(item.link),
                    brand_name |-> FieldOf(item.brand),
                    product_name |-> FieldOf(item.name),
                    price |-> PriceOf(item.prices),
                    image_url |-> ImageOf(item.img)]]

\* ------------------------------------------------------------ crawl_musinsa
NoData == [product_url |-> None, brand_name |-> None, product_name |-> None,
           price |-> None, image_url |-> NoneSrc]

NoResult == [raised |-> FALSE, data |-> NoData]

NoItem == [link |-> NoSuchElement, brand |-> NoSuchElement,
           name |-> NoSuchElement, prices |-> <<>>, img |-> NoSuchSrc,
           raises |-> FALSE]

\* What the second lookup of a handle (inside extract_product_info) can find.
CrawlItems ==
    [link : Keys \cup {None, NoSuchElement}, brand : {"b1"},
     name : {"n1"}, prices : {<<"9,900">>},
     img : {<<"i">>}, raises : BOOLEAN]

Absent == [state |-> "absent", content |-> <<>>]
Partial == [state |-> "partial", content |-> <<>>]
Written(list) == [state |-> "written", content |-> list]

\* Positions window.pageYOffset can report.
Positions == {0, ScrollIncrement}

\* A driver call is being made: it is a call on a closed session unless the
\* session is open.
DriverCall == nav_after_quit' = (nav_after_quit \/ driver # "open")

\* --------------------------------------- values of download_golden_images
\* The idx values a path {out_dir}/{idx}.jpg or .part is modelled for.
FileIdx == 0..(MaxGolden + 1)

\* A final file that was in out_dir before the run.
FileOld == [state |-> "old", content |-> <<>>]

\* image_url of the item at each position of the input file.
UrlPool == <<"url1", "url2", "url3", "url4">>

\* The bytes a complete download of url leaves in a file.
Image(url) == Written(<<url>>)

NoFiles == [j \in FileIdx |-> Absent]

\* str(e) at line 59: the message of the exception, empty for one raised
\* without a message (MemoryError()).
ErrorMessages == {"error", ""}

\* download_images is not running.
ImagesIdle ==
    /\ img_pc = "idle"
    /\ items = <<>>
    /\ pos = 1
    /\ total = 0
    /\ saved = 0
    /\ out_files = {}
    /\ skips = {}

\* download_golden_images is not running.
GoldenIdle ==
    /\ main_pc = "idle"
    /\ in_file = Absent
    /\ data = <<>>
    /\ force = FALSE
    /\ concurrency = 1
    /\ tasks = <<>>
    /\ task_pc = <<>>
    /\ task_err = <<>>
    /\ files = NoFiles
    /\ parts = NoFiles
    /\ requested = {}
    /\ errors = {}
    /\ main_ret = -1

Init ==
    /\ pc = "setup"
    /\ max_items \in 0..MaxTarget
    /\ driver = "none"
    /\ quit_calls = 0
    /\ products = <<>>
    /\ collected_urls = {}
    /\ collected_count = 0
    /\ no_new_items_count = 0
    /\ new_items_found = 0
    /\ n_items = 0
    /\ idx = 1
    /\ product_url = None
    /\ product_data = NoData
    /\ target_position = 0
    /\ current_scroll = 0
    /\ output_file = Absent
    /\ fault_caught = FALSE
    /\ outcome = "none"
    /\ caller_report = "none"
    /\ ex_item = NoItem
    /\ ex_result = NoResult
    /\ nav_after_quit = FALSE
    /\ scan_base = 0
    /\ empty_scans = 0
    /\ valid_seen = {}
    /\ diverged = FALSE
    /\ handle_class = "none"
    /\ GoldenIdle
    /\ ImagesIdle

\* line 124: setup_driver() returns a session; lines 125-128.
SetupDriver ==
    /\ pc = "setup"
    /\ pc' = "load"
    /\ driver' = "open"
    /\ products' = <<>>
    /\ collected_urls' = {}
    /\ collected_count' = 0
    /\ UNCHANGED <<max_items, quit_calls, no_new_items_count, new_items_found,
                   n_items, idx, product_url, product_data, target_position,
                   current_scroll, output_file, fault_caught, outcome,
                   caller_report, exVars, goldenVars, imageVars, histVars>>

\* line 124: setup_driver() raises (lines 49, 54, 63), outside the try.
SetupDriverFails ==
    /\ pc = "setup"
    /\ pc' = "propagated"
    /\ UNCHANGED <<crawlVars, exVars, goldenVars, imageVars, histVars>>

\* lines 131-141: driver.get, wait.until, sleep.
Load ==
    /\ pc = "load"
    /\ pc' = "while"
    /\ no_new_items_count' = 0
    /\ DriverCall
    /\ UNCHANGED <<max_items, driver, quit_calls, products, collected_urls,
                   collected_count, new_items_found, n_items, idx, product_url,
                   product_data, target_position, current_scroll, output_file,
                   fault_caught, outcome, caller_report, exVars, goldenVars,
                   imageVars, scan_base, empty_scans, valid_seen, diverged,
                   handle_class>>

\* lines 132, 136: the page does not load, or the marker never appears.
LoadFails ==
    /\ pc = "load"
    /\ pc' = "except"
    /\ DriverCall
    /\ UNCHANGED <<crawlVars, exVars, goldenVars, imageVars, scan_base,
                   empty_scans, valid_seen, diverged, handle_class>>

\* line 143 with <= for <.
WhileTestOffByOne ==
    /\ pc = "while"
    /\ IF collected_count <= max_items
       THEN pc' = "scan" /\ outcome' = outcome
       ELSE pc' = "save" /\ outcome' = "reached_target"
    /\ UNCHANGED <<max_items, driver, quit_calls, products, collected_urls,
                   collected_count, no_new_items_count, new_items_found,
                   n_items, idx, product_url, product_data, target_position,
                   current_scroll, output_file, fault_caught, caller_report,
                   exVars, goldenVars, imageVars, histVars>>

\* line 143: the while test.  It fails only when the loop is entered with
\* collected_count >= max_items; the two breaks leave the loop otherwise.
WhileTest ==
    /\ pc = "while"
    /\ IF collected_count < max_items
       THEN pc' = "scan" /\ outcome' = outcome
       ELSE pc' = "save" /\ outcome' = "reached_target"
    /\ UNCHANGED <<max_items, driver, quit_calls, products, collected_urls,
                   collected_count, no_new_items_count, new_items_found,
                   n_items, idx, product_url, product_data, target_position,
                   current_scroll, output_file, fault_caught, caller_report,
                   exVars, goldenVars, imageVars, histVars>>

\* lines 145-154: find_elements returns the handles now rendered.
Scan ==
    /\ pc = "scan"
    /\ pc' = "for"
    /\ n_items' \in 0..MaxScanLen
    /\ idx' = 1
    /\ new_items_found' = 0
    /\ DriverCall
    /\ scan_base' = Len(products)
    /\ handle_class' = "none"
    /\ UNCHANGED <<max_items, driver, quit_calls, products, collected_urls,
                   collected_count, no_new_items_count, product_url,
                   product_data, target_position, current_scroll, output_file,
                   fault_caught, outcome, caller_report, exVars, goldenVars,
                   imageVars, empty_scans, valid_seen, diverged>>

\* line 148: the session is broken.
ScanFails ==
    /\ pc = "scan"
    /\ pc' = "except"
    /\ DriverCall
    /\ UNCHANGED <<crawlVars, exVars, goldenVars, imageVars, scan_base,
                   empty_scans, valid_seen, diverged, handle_class>>

\* lines 156-158: the for loop is over, or the target is reached.
ForExit ==
    /\ pc = "for"
    /\ idx > n_items \/ collected_count >= max_items
    /\ pc' = "eval"
    /\ handle_class' = "none"
    /\ UNCHANGED <<crawlVars, exVars, goldenVars, imageVars, nav_after_quit,
                   scan_base, empty_scans, valid_seen, diverged>>

\* What a handle is, from what its lookups return: link at line 163, item
\* inside extract_product_info at line 170.  It has no identity key when the
\* link lookup raises, when extraction raises, or when the extracted record
\* has no product_url.
ClassOf(link, item, seen) ==
    IF link \in {NoSuchElement, Raised} THEN "invalid"
    ELSE IF link \in seen THEN "duplicate"
    ELSE IF item.raises \/ ~Truthy(FieldOf(item.link)) THEN "invalid"
    ELSE "new"

\* The handle shows a valid item with identity key link: the link lookup
\* gives a key and extraction, when the page is asked again, gives a record.
Observed(link, item) ==
    /\ link \in Keys
    /\ ~item.raises
    /\ Truthy(FieldOf(item.link))

\* The two lookups of the handle's link were both made and disagreed.
Disagree(link, item, seen) ==
    /\ link \notin {NoSuchElement, Raised}
    /\ link \notin seen
    /\ ~item.raises
    /\ FieldOf(item.link) # link

\* lines 160-187 with line 175 moved before line 170: the key is recorded
\* before the item is extracted.
ItemBodyMarksFirst(link, item) ==
    IF link \in {NoSuchElement, Raised}
    THEN UNCHANGED <<product_url, product_data, products, collected_urls,
                     collected_count, new_items_found>>
    ELSE /\ product_url' = link
         /\ IF link \in collected_urls
            THEN UNCHANGED <<product_data, products, collected_urls,
                             collected_count, new_items_found>>
            ELSE LET r == ExtractProductInfo(item) IN
                 /\ collected_urls' = collected_urls \cup {link}
                 /\ IF r.raised
                    THEN UNCHANGED <<product_data, products, collected_count,
                                     new_items_found>>
                    ELSE /\ product_data' = r.data
                         /\ IF Truthy(r.data.product_url)
                            THEN /\ products' = Append(products, r.data)
                                 /\ collected_count' = collected_count + 1
                                 /\ new_items_found' = new_items_found + 1
                            ELSE UNCHANGED <<products, collected_count,
                                             new_items_found>>

\* lines 160-187 without the test of line 173.
ItemBodyNoValidity(link, item) ==
    IF link \in {NoSuchElement, Raised}
    THEN UNCHANGED <<product_url, product_data, products, collected_urls,
                     collected_count, new_items_found>>
    ELSE /\ product_url' = link
         /\ IF link \in collected_urls
            THEN UNCHANGED <<product_data, products, collected_urls,
                             collected_count, new_items_found>>
            ELSE LET r == ExtractProductInfo(item) IN
                 IF r.raised
                 THEN UNCHANGED <<product_data, products, collected_urls,
                                  collected_count, new_items_found>>
                 ELSE /\ product_data' = r.data
                      /\ products' = Append(products, r.data)
                      /\ collected_urls' = collected_urls \cup {link}
                      /\ collected_count' = collected_count + 1
                      /\ new_items_found' = new_items_found + 1

\* lines 180-181: the progress print is due and slices a product_name that
\* is None.
PrintRaises(rec, count) ==
    count % ProgressEvery = 0 /\ rec.product_name = None

\* lines 160-187 with the print of lines 180-181 placed before line 174:
\* when it raises, the handler at line 185 is entered before the record is
\* appended.
ItemBodyPrintFirst(link, item) ==
    IF link \in {NoSuchElement, Raised}
    THEN UNCHANGED <<product_url, product_data, products, collected_urls,
                     collected_count, new_items_found>>
    ELSE /\ product_url' = link
         /\ IF link \in collected_urls
            THEN UNCHANGED <<product_data, products, collected_urls,
                             collected_count, new_items_found>>
            ELSE LET r == ExtractProductInfo(item) IN
                 IF r.raised
                 THEN UNCHANGED <<product_data, products, collected_urls,
                                  collected_count, new_items_found>>
                 ELSE /\ product_data' = r.data
                      /\ IF /\ Truthy(r.data.product_url)
                            /\ ~PrintRaises(r.data, collected_count + 1)
                         THEN /\ products' = Append(products, r.data)
                              /\ collected_urls' = collected_urls \cup {link}
                              /\ collected_count' = collected_count + 1
                              /\ new_items_found' = new_items_found + 1
                         ELSE UNCHANGED <<products, collected_urls,
                                          collected_count, new_items_found>>

\* lines 160-187, one handle.  link is what line 163 reads; item is what
\* extract_product_info finds when it is called at line 170.
ItemBody(link, item) ==
    IF link \in {NoSuchElement, Raised}
    THEN \* line 162 raises: lines 183-187
         UNCHANGED <<product_url, product_data, products, collected_urls,
                     collected_count, new_items_found>>
    ELSE /\ product_url' = link
         /\ IF link \in collected_urls
            THEN \* lines 166-167
                 UNCHANGED <<product_data, products, collected_urls,
                             collected_count, new_items_found>>
            ELSE LET r == ExtractProductInfo(item) IN
                 IF r.raised
                 THEN \* line 170 raises: lines 185-187
                      UNCHANGED <<product_data, products, collected_urls,
                                  collected_count, new_items_found>>
                 ELSE /\ product_data' = r.data
                      /\ IF Truthy(r.data.product_url)
                         THEN \* lines 174-177; the print of lines 180-181
                              \* assigns nothing, also when it raises
                              \* (caught at line 185)
                              /\ products' = Append(products, r.data)
                              /\ collected_urls' = collected_urls \cup {link}
                              /\ collected_count' = collected_count + 1
                              /\ new_items_found' = new_items_found + 1
                         ELSE UNCHANGED <<products, collected_urls,
                                          collected_count, new_items_found>>

\* lines 156-187 without the test of lines 157-158.
ItemStepNoLimit ==
    /\ pc = "for"
    /\ idx <= n_items
    /\ \E link \in LinkReads, item \in CrawlItems :
           /\ ItemBody(link, item)
           /\ handle_class' = ClassOf(link, item, collected_urls)
           /\ diverged' = (diverged \/ Disagree(link, item, collected_urls))
           /\ valid_seen' =
                  IF Observed(link, item) THEN valid_seen \cup {link}
                  ELSE valid_seen
    /\ idx' = idx + 1
    /\ pc' = "for"
    /\ DriverCall
    /\ UNCHANGED <<max_items, driver, quit_calls, no_new_items_count, n_items,
                   target_position, current_scroll, output_file, fault_caught,
                   outcome, caller_report, exVars, goldenVars, imageVars,
                   scan_base, empty_scans>>

ItemStep ==
    /\ pc = "for"
    /\ idx <= n_items
    /\ collected_count < max_items
    /\ \E link \in LinkReads, item \in CrawlItems :
           /\ ItemBody(link, item)
           /\ handle_class' = ClassOf(link, item, collected_urls)
           /\ diverged' = (diverged \/ Disagree(link, item, collected_urls))
           /\ valid_seen' =
                  IF Observed(link, item) THEN valid_seen \cup {link}
                  ELSE valid_seen
    /\ idx' = idx + 1
    /\ pc' = "for"
    /\ DriverCall
    /\ UNCHANGED <<max_items, driver, quit_calls, no_new_items_count, n_items,
                   target_position, current_scroll, output_file, fault_caught,
                   outcome, caller_report, exVars, goldenVars, imageVars,
                   scan_base, empty_scans>>

\* lines 189-204 without the reset at line 191.
EvaluateNoReset ==
    /\ pc = "eval"
    /\ IF new_items_found > 0
       THEN /\ no_new_items_count' = no_new_items_count
            /\ IF collected_count >= max_items
               THEN pc' = "save" /\ outcome' = "reached_target"
               ELSE pc' = "while" /\ outcome' = outcome
       ELSE /\ no_new_items_count' = no_new_items_count + 1
            /\ IF no_new_items_count + 1 >= StallThreshold
               THEN pc' = "save" /\ outcome' = "exhausted"
               ELSE pc' = "scroll" /\ outcome' = outcome
    /\ empty_scans' = IF Len(products) = scan_base THEN empty_scans + 1 ELSE 0
    /\ UNCHANGED <<max_items, driver, quit_calls, products, collected_urls,
                   collected_count, new_items_found, n_items, idx, product_url,
                   product_data, target_position, current_scroll, output_file,
                   fault_caught, caller_report, exVars, goldenVars, imageVars,
                   nav_after_quit, scan_base, valid_seen, diverged,
                   handle_class>>

\* lines 189-204 with the scroll of lines 206-220 after every scan
\* that does not end the loop.
EvaluateScrollsAfterNew ==
    /\ pc = "eval"
    /\ IF new_items_found > 0
       THEN /\ no_new_items_count' = 0
            /\ IF collected_count >= max_items
               THEN pc' = "save" /\ outcome' = "reached_target"
               ELSE pc' = "scroll" /\ outcome' = outcome
       ELSE /\ no_new_items_count' = no_new_items_count + 1
            /\ IF no_new_items_count + 1 >= StallThreshold
               THEN pc' = "save" /\ outcome' = "exhausted"
               ELSE pc' = "scroll" /\ outcome' = outcome
    /\ empty_scans' = IF Len(products) = scan_base THEN empty_scans + 1 ELSE 0
    /\ UNCHANGED <<max_items, driver, quit_calls, products, collected_urls,
                   collected_count, new_items_found, n_items, idx, product_url,
                   product_data, target_position, current_scroll, output_file,
                   fault_caught, caller_report, exVars, goldenVars, imageVars,
                   nav_after_quit, scan_base, valid_seen, diverged,
                   handle_class>>

\* lines 189-204 without the increment at line 197.
EvaluateNoStallCount ==
    /\ pc = "eval"
    /\ IF new_items_found > 0
       THEN /\ no_new_items_count' = 0
            /\ IF collected_count >= max_items
               THEN pc' = "save" /\ outcome' = "reached_target"
               ELSE pc' = "while" /\ outcome' = outcome
       ELSE /\ no_new_items_count' = no_new_items_count
            /\ IF no_new_items_count >= StallThreshold
               THEN pc' = "save" /\ outcome' = "exhausted"
               ELSE pc' = "scroll" /\ outcome' = outcome
    /\ empty_scans' = IF Len(products) = scan_base THEN empty_scans + 1 ELSE 0
    /\ UNCHANGED <<max_items, driver, quit_calls, products, collected_urls,
                   collected_count, new_items_found, n_items, idx, product_url,
                   product_data, target_position, current_scroll, output_file,
                   fault_caught, caller_report, exVars, goldenVars, imageVars,
                   nav_after_quit, scan_base, valid_seen, diverged,
                   handle_class>>

\* lines 189-204 with > for >= at line 201.
EvaluateOffByOne ==
    /\ pc = "eval"
    /\ IF new_items_found > 0
       THEN /\ no_new_items_count' = 0
            /\ IF collected_count >= max_items
               THEN pc' = "save" /\ outcome' = "reached_target"
               ELSE pc' = "while" /\ outcome' = outcome
       ELSE /\ no_new_items_count' = no_new_items_count + 1
            /\ IF no_new_items_count + 1 > StallThreshold
               THEN pc' = "save" /\ outcome' = "exhausted"
               ELSE pc' = "scroll" /\ outcome' = outcome
    /\ empty_scans' = IF Len(products) = scan_base THEN empty_scans + 1 ELSE 0
    /\ UNCHANGED <<max_items, driver, quit_calls, products, collected_urls,
                   collected_count, new_items_found, n_items, idx, product_url,
                   product_data, target_position, current_scroll, output_file,
                   fault_caught, caller_report, exVars, goldenVars, imageVars,
                   nav_after_quit, scan_base, valid_seen, diverged,
                   handle_class>>

\* lines 189-204.
Evaluate ==
    /\ pc = "eval"
    /\ IF new_items_found > 0
       THEN /\ no_new_items_count' = 0
            /\ IF collected_count >= max_items
               THEN pc' = "save" /\ outcome' = "reached_target"
               ELSE pc' = "while" /\ outcome' = outcome
       ELSE /\ no_new_items_count' = no_new_items_count + 1
            /\ IF no_new_items_count + 1 >= StallThreshold
               THEN pc' = "save" /\ outcome' = "exhausted"
               ELSE pc' = "scroll" /\ outcome' = outcome
    /\ empty_scans' = IF Len(products) = scan_base THEN empty_scans + 1 ELSE 0
    /\ UNCHANGED <<max_items, driver, quit_calls, products, collected_urls,
                   collected_count, new_items_found, n_items, idx, product_url,
                   product_data, target_position, current_scroll, output_file,
                   fault_caught, caller_report, exVars, goldenVars, imageVars,
                   nav_after_quit, scan_base, valid_seen, diverged,
                   handle_class>>

\* lines 209-220: read the position, scroll to it plus 2000.
Scroll ==
    /\ pc = "scroll"
    /\ current_scroll' \in Positions
    /\ target_position' = current_scroll' + ScrollIncrement
    /\ pc' = "while"
    /\ DriverCall
    /\ UNCHANGED <<max_items, driver, quit_calls, products, collected_urls,
                   collected_count, no_new_items_count, new_items_found,
                   n_items, idx, product_url, product_data, output_file,
                   fault_caught, outcome, caller_report, exVars, goldenVars,
                   imageVars, scan_base, empty_scans, valid_seen, diverged,
                   handle_class>>

\* lines 209, 210, 217: execute_script raises; at line 217 the request had
\* already been made.
ScrollFails ==
    /\ pc = "scroll"
    /\ \/ UNCHANGED <<current_scroll, target_position>>
       \/ /\ current_scroll' \in Positions
          /\ UNCHANGED target_position
       \/ /\ current_scroll' \in Positions
          /\ target_position' = current_scroll' + ScrollIncrement
    /\ pc' = "except"
    /\ DriverCall
    /\ UNCHANGED <<max_items, driver, quit_calls, products, collected_urls,
                   collected_count, no_new_items_count, new_items_found,
                   n_items, idx, product_url, product_data, output_file,
                   fault_caught, outcome, caller_report, exVars, goldenVars,
                   imageVars, scan_base, empty_scans, valid_seen, diverged,
                   handle_class>>

\* lines 224-231.
Save ==
    /\ pc = "save"
    /\ output_file' = Written(products)
    /\ pc' = "finally"
    /\ UNCHANGED <<max_items, driver, quit_calls, products, collected_urls,
                   collected_count, no_new_items_count, new_items_found,
                   n_items, idx, product_url, product_data, target_position,
                   current_scroll, fault_caught, outcome, caller_report,
                   exVars, goldenVars, imageVars, histVars>>

\* line 224 raises (the file is untouched) or line 225 raises (open has
\* truncated it).
SaveFails ==
    /\ pc = "save"
    /\ output_file' \in {output_file, Partial}
    /\ pc' = "except"
    /\ UNCHANGED <<max_items, driver, quit_calls, products, collected_urls,
                   collected_count, no_new_items_count, new_items_found,
                   n_items, idx, product_url, product_data, target_position,
                   current_scroll, fault_caught, outcome, caller_report,
                   exVars, goldenVars, imageVars, histVars>>

\* lines 233-236 with the write of lines 224-225 moved into the handler.
ExceptSaves ==
    /\ pc = "except"
    /\ fault_caught' = TRUE
    /\ output_file' = Written(products)
    /\ pc' = "finally"
    /\ UNCHANGED <<max_items, driver, quit_calls, products, collected_urls,
                   collected_count, no_new_items_count, new_items_found,
                   n_items, idx, product_url, product_data, target_position,
                   current_scroll, outcome, caller_report, exVars, goldenVars,
                   imageVars, histVars>>

\* lines 233-236.
Except ==
    /\ pc = "except"
    /\ fault_caught' = TRUE
    /\ pc' = "finally"
    /\ UNCHANGED <<max_items, driver, quit_calls, products, collected_urls,
                   collected_count, no_new_items_count, new_items_found,
                   n_items, idx, product_url, product_data, target_position,
                   current_scroll, output_file, outcome, caller_report, exVars,
                   goldenVars, imageVars, histVars>>

\* lines 238-241 with driver.quit() at the end of the try block instead of
\* in a finally clause.
FinallyQuitInTry ==
    /\ pc = "finally"
    /\ driver' = IF fault_caught THEN driver ELSE "quit"
    /\ quit_calls' = IF fault_caught THEN quit_calls ELSE quit_calls + 1
    /\ pc' = "returned"
    /\ UNCHANGED <<max_items, products, collected_urls, collected_count,
                   no_new_items_count, new_items_found, n_items, idx,
                   product_url, product_data, target_position, current_scroll,
                   output_file, fault_caught, outcome, caller_report, exVars,
                   goldenVars, imageVars, histVars>>

\* lines 238-241: driver.quit(), then return products.
Finally ==
    /\ pc = "finally"
    /\ driver' = "quit"
    /\ quit_calls' = quit_calls + 1
    /\ pc' = "returned"
    /\ UNCHANGED <<max_items, products, collected_urls, collected_count,
                   no_new_items_count, new_items_found, n_items, idx,
                   product_url, product_data, target_position, current_scroll,
                   output_file, fault_caught, outcome, caller_report, exVars,
                   goldenVars, imageVars, histVars>>

\* lines 345-353 of __main__: the call returned, or it raised.
Caller ==
    /\ pc \in {"returned", "propagated"}
    /\ caller_report' = IF pc = "returned" THEN "completed" ELSE "failed"
    /\ pc' = "done"
    /\ UNCHANGED <<max_items, driver, quit_calls, products, collected_urls,
                   collected_count, no_new_items_count, new_items_found,
                   n_items, idx, product_url, product_data, target_position,
                   current_scroll, output_file, fault_caught, outcome, exVars,
                   goldenVars, imageVars, histVars>>

Next ==
    \/ SetupDriver
    \/ SetupDriverFails
    \/ Load
    \/ LoadFails
    \/ WhileTest
    \/ Scan
    \/ ScanFails
    \/ ForExit
    \/ ItemStep
    \/ Evaluate
    \/ Scroll
    \/ ScrollFails
    \/ Save
    \/ SaveFails
    \/ Except
    \/ Finally
    \/ Caller

Spec == Init /\ [][Next]_vars

\* The run is one sequential thread: whenever it has a next statement it
\* eventually executes it.
SpecFair == Spec /\ WF_vars(Next)

\* ------------------------------------- extract_product_info on its own
SrcChars == {"a", "?"}

RECURSIVE SeqsUpTo(_, _)
SeqsUpTo(S, n) ==
    IF n = 0 THEN {<<>>}
    ELSE LET shorter == SeqsUpTo(S, n - 1) IN
         shorter \cup {Append(q, x) : q \in shorter, x \in S}

\* The rendered items extract_product_info is applied to.
ExtractItems ==
    [link : {"u1", None, NoSuchElement},
     brand : {"b1", NoSuchElement},
     name : {"n1", NoSuchElement},
     prices : SeqsUpTo(Fragments, MaxFragments),
     img : SeqsUpTo(SrcChars, MaxSrcLen) \cup {NoneSrc, NoSuchSrc},
     raises : BOOLEAN]

InitExtract ==
    /\ pc = "extract"
    /\ ex_item \in ExtractItems
    /\ ex_result = NoResult
    /\ max_items = 0
    /\ driver = "none"
    /\ quit_calls = 0
    /\ products = <<>>
    /\ collected_urls = {}
    /\ collected_count = 0
    /\ no_new_items_count = 0
    /\ new_items_found = 0
    /\ n_items = 0
    /\ idx = 1
    /\ product_url = None
    /\ product_data = NoData
    /\ target_position = 0
    /\ current_scroll = 0
    /\ output_file = Absent
    /\ fault_caught = FALSE
    /\ outcome = "none"
    /\ caller_report = "none"
    /\ nav_after_quit = FALSE
    /\ scan_base = 0
    /\ empty_scans = 0
    /\ valid_seen = {}
    /\ diverged = FALSE
    /\ handle_class = "none"
    /\ GoldenIdle
    /\ ImagesIdle

\* lines 65-114: one call.
Extract ==
    /\ pc = "extract"
    /\ ex_result' = ExtractProductInfo(ex_item)
    /\ pc' = "extracted"
    /\ UNCHANGED <<ex_item, crawlVars, histVars, goldenVars, imageVars>>

SpecExtract == InitExtract /\ [][Extract]_vars

\* ------------------------------------- one scan with the progress print
\* href of the link of each handle of the scan.
ProgressKeyPool == <<"p1", "p2", "p3", "p4", "p5", "p6", "p7", "p8", "p9",
                     "p10", "p11", "p12", "p13">>

\* What the handle at position i shows: its own link and a product name or
\* none; or no link, on a page where fewer than MaxProgressInvalid handles
\* before it had none (skipped counts them).
ProgressItems(i, skipped) ==
    {[link |-> ProgressKeyPool[i], brand |-> "b1", name |-> n,
      prices |-> <<"9,900">>, img |-> <<"i">>, raises |-> FALSE] :
         n \in {"n1", NoSuchElement}}
    \cup (IF skipped < MaxProgressInvalid
          THEN {[link |-> None, brand |-> "b1", name |-> "n1",
                 prices |-> <<"9,900">>, img |-> <<"i">>, raises |-> FALSE]}
          ELSE {})

\* lines 143-156: the first scan has found MaxProgressScan handles.
InitProgress ==
    /\ pc = "for"
    /\ max_items \in {ProgressEvery, ProgressEvery + 1}
    /\ driver = "open"
    /\ n_items = MaxProgressScan
    /\ idx = 1
    /\ ex_item = NoItem
    /\ ex_result = NoResult
    /\ quit_calls = 0
    /\ products = <<>>
    /\ collected_urls = {}
    /\ collected_count = 0
    /\ no_new_items_count = 0
    /\ new_items_found = 0
    /\ product_url = None
    /\ product_data = NoData
    /\ target_position = 0
    /\ current_scroll = 0
    /\ output_file = Absent
    /\ fault_caught = FALSE
    /\ outcome = "none"
    /\ caller_report = "none"
    /\ nav_after_quit = FALSE
    /\ scan_base = 0
    /\ empty_scans = 0
    /\ valid_seen = {}
    /\ diverged = FALSE
    /\ handle_class = "none"
    /\ GoldenIdle
    /\ ImagesIdle

\* lines 156-187, one handle, the two lookups of its link agreeing; the
\* handle is classed print_fault when lines 180-181 raise and line 185
\* catches.
ItemStepProgress ==
    /\ pc = "for"
    /\ idx <= n_items
    /\ collected_count < max_items
    /\ \E item \in ProgressItems(idx, idx - 1 - collected_count) :
           /\ ItemBody(item.link, item)
           /\ handle_class' =
                  IF /\ ClassOf(item.link, item, collected_urls) = "new"
                     /\ PrintRaises(ExtractProductInfo(item).data,
                                    collected_count + 1)
                  THEN "print_fault"
                  ELSE ClassOf(item.link, item, collected_urls)
    /\ idx' = idx + 1
    /\ pc' = "for"
    /\ DriverCall
    /\ UNCHANGED <<max_items, driver, quit_calls, no_new_items_count, n_items,
                   target_position, current_scroll, output_file, fault_caught,
                   outcome, caller_report, exVars, goldenVars, imageVars,
                   scan_base, empty_scans, valid_seen, diverged>>

NextProgress ==
    \/ ItemStepProgress
    \/ ForExit

SpecProgress == InitProgress /\ [][NextProgress]_vars

\* ------------------------------------------------ download_golden_images
crawlerVars == <<pc, crawlVars, exVars, histVars>>

\* musinsa_crawler is not running.
CrawlerIdle ==
    /\ pc = "idle"
    /\ ex_item = NoItem
    /\ ex_result = NoResult
    /\ max_items = 0
    /\ driver = "none"
    /\ quit_calls = 0
    /\ products = <<>>
    /\ collected_urls = {}
    /\ collected_count = 0
    /\ no_new_items_count = 0
    /\ new_items_found = 0
    /\ n_items = 0
    /\ idx = 1
    /\ product_url = None
    /\ product_data = NoData
    /\ target_position = 0
    /\ current_scroll = 0
    /\ output_file = Absent
    /\ fault_caught = FALSE
    /\ outcome = "none"
    /\ caller_report = "none"
    /\ nav_after_quit = FALSE
    /\ scan_base = 0
    /\ empty_scans = 0
    /\ valid_seen = <<>>
    /\ diverged = FALSE
    /\ handle_class = "none"

\* The "index" values an input file of n items can carry: none (read as 0,
\* as d.get("index", 0) reads it), each one too high, or in reverse order.
IndexPatterns(n) ==
    {[i \in 1..n |-> 0], [i \in 1..n |-> i + 1], [i \in 1..n |-> n + 1 - i]}

GoldenInputs ==
    UNION {{[i \in 1..n |-> [index |-> ix[i], image_url |-> UrlPool[i]]] :
               ix \in IndexPatterns(n)} : n \in 0..MaxGolden}

\* The final files out_dir can hold before a run of n items.
GoldenFiles(n) ==
    {[j \in FileIdx |-> IF j \in old THEN FileOld ELSE Absent] :
         old \in SUBSET (1..n)}

InitGolden ==
    /\ CrawlerIdle
    /\ ImagesIdle
    /\ main_pc = "load"
    /\ \E input \in GoldenInputs :
           /\ in_file = Written(input)
           /\ files \in GoldenFiles(Len(input))
    /\ data = <<>>
    /\ force \in BOOLEAN
    /\ concurrency \in 1..MaxWorkers
    /\ tasks = <<>>
    /\ task_pc = <<>>
    /\ task_err = <<>>
    /\ parts = NoFiles
    /\ requested = {}
    /\ errors = {}
    /\ main_ret = -1

\* lines 85-86.
LoadJson ==
    /\ main_pc = "load"
    /\ data' = in_file.content
    /\ main_pc' = "index"
    /\ UNCHANGED <<in_file, force, concurrency, tasks, task_pc, task_err,
                   files, parts, requested, errors, main_ret, crawlerVars,
                   imageVars>>

\* lines 85-86: open or json.load raises; main has no handler.
LoadJsonFails ==
    /\ main_pc = "load"
    /\ main_pc' = "raised"
    /\ UNCHANGED <<in_file, data, force, concurrency, tasks, task_pc,
                   task_err, files, parts, requested, errors, main_ret,
                   crawlerVars, imageVars>>

\* lines 89-90 with item.setdefault("index", i): an index already there is
\* kept.
IndexItemsKeepExisting ==
    /\ main_pc = "index"
    /\ data' = [i \in 1..Len(data) |->
                    [data[i] EXCEPT !.index =
                         IF data[i].index = 0 THEN i ELSE data[i].index]]
    /\ main_pc' = "persist"
    /\ UNCHANGED <<in_file, force, concurrency, tasks, task_pc, task_err,
                   files, parts, requested, errors, main_ret, crawlerVars,
                   imageVars>>

\* lines 89-90.
IndexItems ==
    /\ main_pc = "index"
    /\ data' = [i \in 1..Len(data) |-> [data[i] EXCEPT !.index = i]]
    /\ main_pc' = "persist"
    /\ UNCHANGED <<in_file, force, concurrency, tasks, task_pc, task_err,
                   files, parts, requested, errors, main_ret, crawlerVars,
                   imageVars>>

\* lines 93-94.
PersistJson ==
    /\ main_pc = "persist"
    /\ in_file' = Written(data)
    /\ main_pc' = "submit"
    /\ UNCHANGED <<data, force, concurrency, tasks, task_pc, task_err, files,
                   parts, requested, errors, main_ret, crawlerVars, imageVars>>

\* lines 93-94: open raises (the file is untouched) or json.dump raises
\* (open has truncated it); main has no handler.
PersistJsonFails ==
    /\ main_pc = "persist"
    /\ in_file' \in {in_file, Partial}
    /\ main_pc' = "raised"
    /\ UNCHANGED <<data, force, concurrency, tasks, task_pc, task_err, files,
                   parts, requested, errors, main_ret, crawlerVars, imageVars>>

\* sorted(data, key=lambda d: int(d.get("index", 0))), a stable sort.
RECURSIVE InsertByIndex(_, _)
InsertByIndex(item, s) ==
    IF s = <<>> THEN <<item>>
    ELSE IF s[Len(s)].index <= item.index THEN Append(s, item)
    ELSE Append(InsertByIndex(item, SubSeq(s, 1, Len(s) - 1)), s[Len(s)])

RECURSIVE SortedByIndex(_)
SortedByIndex(d) ==
    IF d = <<>> THEN <<>>
    ELSE InsertByIndex(d[Len(d)], SortedByIndex(SubSeq(d, 1, Len(d) - 1)))

\* lines 100-103: one ex.submit, or the end of the for loop.
Submit ==
    /\ main_pc = "submit"
    /\ IF Len(tasks) < Len(data)
       THEN /\ tasks' = Append(tasks, SortedByIndex(data)[Len(tasks) + 1])
            /\ task_pc' = Append(task_pc, "queued")
            /\ task_err' = Append(task_err, "pending")
            /\ UNCHANGED main_pc
       ELSE /\ main_pc' = "collect"
            /\ UNCHANGED <<tasks, task_pc, task_err>>
    /\ UNCHANGED <<in_file, data, force, concurrency, files, parts,
                   requested, errors, main_ret, crawlerVars, imageVars>>

Running == {k \in 1..Len(tasks) : task_pc[k] \notin {"queued", "done"}}

\* ThreadPoolExecutor(max_workers=concurrency): a worker that is free takes
\* the oldest queued call.
StartTask(k) ==
    /\ task_pc[k] = "queued"
    /\ \A j \in 1..(k - 1) : task_pc[j] # "queued"
    /\ Cardinality(Running) < concurrency
    /\ task_pc' = [task_pc EXCEPT ![k] = "check"]
    /\ UNCHANGED <<main_pc, in_file, data, force, concurrency, tasks,
                   task_err, files, parts, requested, errors, main_ret,
                   crawlerVars, imageVars>>

\* lines 45-48 without the test of the final file.
CheckFinalIgnoresExisting(k) ==
    /\ task_pc[k] = "check"
    /\ task_pc' = [task_pc EXCEPT ![k] = "request"]
    /\ UNCHANGED <<main_pc, in_file, data, force, concurrency, tasks,
                   task_err, files, parts, requested, errors, main_ret,
                   crawlerVars, imageVars>>

\* lines 42-48.
CheckFinal(k) ==
    /\ task_pc[k] = "check"
    /\ IF ~force /\ files[tasks[k].index] # Absent
       THEN /\ task_pc' = [task_pc EXCEPT ![k] = "done"]
            /\ task_err' = [task_err EXCEPT ![k] = None]
       ELSE /\ task_pc' = [task_pc EXCEPT ![k] = "request"]
            /\ UNCHANGED task_err
    /\ UNCHANGED <<main_pc, in_file, data, force, concurrency, tasks, files,
                   parts, requested, errors, main_ret, crawlerVars, imageVars>>

\* lines 49-50, the response is good.
Request(k) ==
    /\ task_pc[k] = "request"
    /\ requested' = requested \cup {tasks[k].index}
    /\ task_pc' = [task_pc EXCEPT ![k] = "open"]
    /\ UNCHANGED <<main_pc, in_file, data, force, concurrency, tasks, task_err,
                   files, parts, errors, main_ret, crawlerVars, imageVars>>

\* lines 49-50 raise, lines 58-59.
RequestFails(k) ==
    /\ task_pc[k] = "request"
    /\ requested' = requested \cup {tasks[k].index}
    /\ task_pc' = [task_pc EXCEPT ![k] = "done"]
    /\ \E msg \in ErrorMessages :
           task_err' = [task_err EXCEPT ![k] = msg]
    /\ UNCHANGED <<main_pc, in_file, data, force, concurrency, tasks,
                   files, parts, errors, main_ret, crawlerVars, imageVars>>

\* lines 51-52: open(tmp_path, "wb") creates or truncates the .part file.
OpenPart(k) ==
    /\ task_pc[k] = "open"
    /\ parts' = [parts EXCEPT ![tasks[k].index] = Partial]
    /\ task_pc' = [task_pc EXCEPT ![k] = "write"]
    /\ UNCHANGED <<main_pc, in_file, data, force, concurrency, tasks,
                   task_err, files, requested, errors, main_ret,
                   crawlerVars, imageVars>>

\* line 52 raises, lines 58-59.
OpenPartFails(k) ==
    /\ task_pc[k] = "open"
    /\ task_pc' = [task_pc EXCEPT ![k] = "done"]
    /\ \E msg \in ErrorMessages :
           task_err' = [task_err EXCEPT ![k] = msg]
    /\ UNCHANGED <<main_pc, in_file, data, force, concurrency, tasks, files,
                   parts, requested, errors, main_ret, crawlerVars, imageVars>>

\* lines 53-55: every chunk is written and the file closed.
WritePart(k) ==
    /\ task_pc[k] = "write"
    /\ parts' = [parts EXCEPT ![tasks[k].index] = Image(tasks[k].image_url)]
    /\ task_pc' = [task_pc EXCEPT ![k] = "replace"]
    /\ UNCHANGED <<main_pc, in_file, data, force, concurrency, tasks,
                   task_err, files, requested, errors, main_ret,
                   crawlerVars, imageVars>>

\* lines 53-55 raise (the connection drops, the disk is full), lines 58-59:
\* the .part file stays as it is.
WritePartFails(k) ==
    /\ task_pc[k] = "write"
    /\ task_pc' = [task_pc EXCEPT ![k] = "done"]
    /\ \E msg \in ErrorMessages :
           task_err' = [task_err EXCEPT ![k] = msg]
    /\ UNCHANGED <<main_pc, in_file, data, force, concurrency, tasks, files,
                   parts, requested, errors, main_ret, crawlerVars, imageVars>>

\* lines 56-57: os.replace(tmp_path, final_path).
ReplaceFinal(k) ==
    /\ task_pc[k] = "replace"
    /\ files' = [files EXCEPT ![tasks[k].index] = parts[tasks[k].index]]
    /\ parts' = [parts EXCEPT ![tasks[k].index] = Absent]
    /\ task_pc' = [task_pc EXCEPT ![k] = "done"]
    /\ task_err' = [task_err EXCEPT ![k] = None]
    /\ UNCHANGED <<main_pc, in_file, data, force, concurrency, tasks,
                   requested, errors, main_ret, crawlerVars, imageVars>>

\* line 56 raises, lines 58-59: the complete download stays in the .part
\* file.
ReplaceFinalFails(k) ==
    /\ task_pc[k] = "replace"
    /\ task_pc' = [task_pc EXCEPT ![k] = "done"]
    /\ \E msg \in ErrorMessages :
           task_err' = [task_err EXCEPT ![k] = msg]
    /\ UNCHANGED <<main_pc, in_file, data, force, concurrency, tasks, files,
                   parts, requested, errors, main_ret, crawlerVars, imageVars>>

\* lines 105-117: every future is done; a result counts as an error when
\* its second component is truthy (line 107); main returns.
Collect ==
    /\ main_pc = "collect"
    /\ \A k \in 1..Len(tasks) : task_pc[k] = "done"
    /\ errors' = {tasks[k].index : k \in {j \in 1..Len(tasks) :
                                              Truthy(task_err[j])}}
    /\ main_ret' = IF errors' # {} THEN 1 ELSE 0
    /\ main_pc' = "returned"
    /\ UNCHANGED <<in_file, data, force, concurrency, tasks, task_pc,
                   task_err, files, parts, requested, crawlerVars, imageVars>>

NextGolden ==
    \/ LoadJson
    \/ LoadJsonFails
    \/ IndexItems
    \/ PersistJson
    \/ PersistJsonFails
    \/ Submit
    \/ \E k \in 1..Len(tasks) : StartTask(k)
    \/ \E k \in 1..Len(tasks) : CheckFinal(k)
    \/ \E k \in 1..Len(tasks) : Request(k)
    \/ \E k \in 1..Len(tasks) : RequestFails(k)
    \/ \E k \in 1..Len(tasks) : OpenPart(k)
    \/ \E k \in 1..Len(tasks) : OpenPartFails(k)
    \/ \E k \in 1..Len(tasks) : WritePart(k)
    \/ \E k \in 1..Len(tasks) : WritePartFails(k)
    \/ \E k \in 1..Len(tasks) : ReplaceFinal(k)
    \/ \E k \in 1..Len(tasks) : ReplaceFinalFails(k)
    \/ Collect

SpecGolden == InitGolden /\ [][NextGolden]_vars

\* ------------------------------------------------------- download_images
\* The image_url values of the items: three usable urls, the empty string
\* and a missing value.
ImageUrls == {"http://h/a.jpg", "http://h/b.png?w=1", "http://h/c/", "", None}

\* The "index" entry of an item: missing, an int (as add_indices writes
\* it), or a value int() rejects (None, a non-numeric string).
IndexValues ==
    {[kind |-> "missing", value |-> 0], [kind |-> "other", value |-> 0]}
        \cup {[kind |-> "int", value |-> n] : n \in 1..MaxImages}

\* The lists of one category of the database.
ImageInputs ==
    UNION {[1..n -> [index : IndexValues, image_url : ImageUrls]] :
               n \in 1..MaxImages}

\* isinstance(url, str) and url
ValidUrl(url) == Truthy(url)

\* it.get("index", pos), then int(idx), with pos on any exception
IndexOf(item, position) ==
    IF item.index.kind = "int" THEN item.index.value ELSE position

\* url.rstrip("/").split("/")[-1].split("?")[0]
filename_from_url(url) ==
    CASE url = "http://h/a.jpg" -> "a.jpg"
      [] url = "http://h/b.png?w=1" -> "b.png"
      [] url = "http://h/c/" -> "c"
      [] OTHER -> ""

\* Path(url_name).suffix
Suffix(name) ==
    CASE name = "a.jpg" -> ".jpg"
      [] name = "b.png" -> ".png"
      [] OTHER -> ""

\* Path(url_name).suffix or ".jpg"
ExtOf(url) ==
    IF Suffix(filename_from_url(url)) # ""
        THEN Suffix(filename_from_url(url))
        ELSE ".jpg"

\* cat_dir / f"{category}_{idx}{ext}", within the one category
OutPath(item, position) ==
    [idx |-> IndexOf(item, position), ext |-> ExtOf(item.image_url)]

\* out_path.exists()
PathExists(path) == \E f \in out_files : f.path = path

\* The state after the database is loaded, with an empty images directory.
InitImages ==
    /\ img_pc = "loop"
    /\ items \in ImageInputs
    /\ pos = 1
    /\ total = 0
    /\ saved = 0
    /\ out_files = {}
    /\ skips = {}
    /\ CrawlerIdle
    /\ GoldenIdle

\* iter_images passes an item without a usable image_url; download_all
\* never sees it.
SkipInvalidUrl ==
    /\ img_pc = "loop"
    /\ pos <= Len(items)
    /\ ~ValidUrl(items[pos].image_url)
    /\ pos' = pos + 1
    /\ UNCHANGED <<img_pc, items, total, saved, out_files, skips,
                   crawlerVars, goldenVars>>

\* The output path exists already: continue.
SkipExisting ==
    /\ img_pc = "loop"
    /\ pos <= Len(items)
    /\ ValidUrl(items[pos].image_url)
    /\ PathExists(OutPath(items[pos], pos))
    /\ total' = total + 1
    /\ skips' = skips \cup {pos}
    /\ pos' = pos + 1
    /\ UNCHANGED <<img_pc, items, saved, out_files, crawlerVars, goldenVars>>

\* The request succeeds and the file is written.
Download ==
    /\ img_pc = "loop"
    /\ pos <= Len(items)
    /\ ValidUrl(items[pos].image_url)
    /\ ~PathExists(OutPath(items[pos], pos))
    /\ total' = total + 1
    /\ out_files' = out_files \cup
           {[path |-> OutPath(items[pos], pos), writer |-> pos,
             complete |-> TRUE]}
    /\ saved' = saved + 1
    /\ pos' = pos + 1
    /\ UNCHANGED <<img_pc, items, skips, crawlerVars, goldenVars>>

\* session.get or raise_for_status raises: caught, no file.
DownloadFails ==
    /\ img_pc = "loop"
    /\ pos <= Len(items)
    /\ ValidUrl(items[pos].image_url)
    /\ ~PathExists(OutPath(items[pos], pos))
    /\ total' = total + 1
    /\ pos' = pos + 1
    /\ UNCHANGED <<img_pc, items, saved, out_files, skips, crawlerVars,
                   goldenVars>>

\* write_bytes raises after it created the file: caught, the file stays.
WriteBytesFails ==
    /\ img_pc = "loop"
    /\ pos <= Len(items)
    /\ ValidUrl(items[pos].image_url)
    /\ ~PathExists(OutPath(items[pos], pos))
    /\ total' = total + 1
    /\ out_files' = out_files \cup
           {[path |-> OutPath(items[pos], pos), writer |-> pos,
             complete |-> FALSE]}
    /\ pos' = pos + 1
    /\ UNCHANGED <<img_pc, items, saved, skips, crawlerVars, goldenVars>>

\* The generator is exhausted: the totals are printed.
ReportTotals ==
    /\ img_pc = "loop"
    /\ pos > Len(items)
    /\ img_pc' = "done"
    /\ UNCHANGED <<items, pos, total, saved, out_files, skips, crawlerVars,
                   goldenVars>>

NextImages ==
    \/ SkipInvalidUrl
    \/ SkipExisting
    \/ Download
    \/ DownloadFails
    \/ WriteBytesFails
    \/ ReportTotals

SpecImages == InitImages /\ [][NextImages]_vars

\* ------------------------------------------------------------------ claims
ProductUrls == {products[i].product_url : i \in 1..Len(products)}

LoopPcs == {"while", "scan", "for", "eval", "scroll"}

\* C1: no two collected items have the same identity key (product_url), in
\* every state of a run and in the returned list.
C1_Uniqueness ==
    \A i, j \in 1..Len(products) :
        i # j => products[i].product_url # products[j].product_url

\* C2: the output only grows by appending at its end, and what is appended
\* is the record of the identity key the loop has just observed for the
\* first time, so the output is in first-observation order.
C2_FirstSeenOrder ==
    [][\/ products' = products
       \/ /\ products' = Append(products, product_data')
          /\ product_data'.product_url = product_url'
          /\ product_url' \notin ProductUrls]_vars

\* C3: len(products) never exceeds max_items; once the loop has ended,
\* len(products) = max_items exactly when it ended with reached_target, and
\* an exhausted run has fewer than max_items.
C3_Bound ==
    /\ Len(products) <= max_items
    /\ outcome # "none" =>
           (Len(products) = max_items <=> outcome = "reached_target")
    /\ outcome = "exhausted" => Len(products) < max_items

C3_Witness ==
    /\ pc = "returned"
    /\ outcome = "reached_target"
    /\ max_items = MaxTarget
    /\ Len(products) = MaxTarget

\* C4: once StallThreshold consecutive scans have each added nothing the loop
\* has ended with outcome exhausted, and from then on the run issues no
\* scan and no scroll.
C4_StallTermination ==
    [][/\ empty_scans' >= StallThreshold =>
              outcome' = "exhausted" /\ pc' \notin LoopPcs
       /\ outcome = "exhausted" =>
              /\ pc' \notin LoopPcs
              /\ target_position' = target_position
              /\ n_items' = n_items
              /\ idx' = idx]_vars

C4_Witness ==
    /\ pc = "returned"
    /\ ~fault_caught
    /\ outcome = "exhausted"
    /\ empty_scans = StallThreshold
    /\ Len(products) >= 1

\* C5: when the count reaches max_items inside a scan, no later handle of
\* the scan is processed, the list has exactly max_items records and is not
\* touched again, no scroll is issued, and the evaluation of that scan ends
\* the loop with outcome reached_target.
C5_ReachedTargetStop ==
    [][/\ (pc \in {"for", "eval"} /\ collected_count >= max_items) =>
              /\ Len(products) = max_items
              /\ products' = products
              /\ idx' = idx
              /\ n_items' = n_items
              /\ target_position' = target_position
              /\ pc' \in {"eval", "save"}
              /\ pc = "eval" => (pc' = "save" /\ outcome' = "reached_target")
       /\ outcome = "reached_target" =>
              /\ products' = products
              /\ target_position' = target_position
              /\ pc' \notin LoopPcs]_vars

C5_Witness ==
    /\ pc = "returned"
    /\ ~fault_caught
    /\ outcome = "reached_target"
    /\ max_items = MaxTarget
    /\ Len(products) = MaxTarget
    /\ idx <= n_items

\* C6: on a page whose handles keep their key between lookups and that
\* shows fewer than max_items distinct valid items, a run that returns
\* without a fault ended after exactly StallThreshold consecutive empty
\* scans with outcome exhausted, and its output holds exactly the keys of
\* the valid items that appeared in a scan, once each.
C6_ExhaustedComplete ==
    (/\ pc = "returned"
     /\ ~fault_caught
     /\ ~diverged
     /\ Cardinality(valid_seen) < max_items)
    => /\ outcome = "exhausted"
       /\ empty_scans = StallThreshold
       /\ ProductUrls = valid_seen
       /\ Len(products) = Cardinality(valid_seen)

C6_Witness ==
    /\ pc = "returned"
    /\ ~fault_caught
    /\ ~diverged
    /\ max_items = MaxTarget
    /\ Cardinality(valid_seen) = MaxTarget - 1
    /\ outcome = "exhausted"
    /\ Len(products) = MaxTarget - 1

\* C7: when __main__ reports a category as completed, the run was not
\* aborted by a navigation or session fault.
C7_FaultSurfaced == caller_report = "completed" => ~fault_caught

\* C8: a session that was created is released exactly once by the time the
\* run returns, whatever the exit path, never more than once, and no driver
\* call is made on a session that is not open.
C8_SessionReleased ==
    /\ quit_calls <= 1
    /\ ~nav_after_quit
    /\ driver = "none" => quit_calls = 0
    /\ driver = "open" => quit_calls = 0 /\ pc \notin {"returned", "done"}
    /\ driver = "quit" => quit_calls = 1 /\ pc \in {"returned", "done"}

C8_Witness ==
    /\ pc = "returned"
    /\ fault_caught
    /\ driver = "quit"
    /\ quit_calls = 1
    /\ Len(products) >= 1

\* C9: a handle without identity key (its link lookup raises, its extraction
\* raises, or its record has no product_url) changes neither products nor
\* collected_urls nor the counters, and the loop goes on with the next
\* handle of the scan.
C9_InvalidSkipped ==
    [][(pc = "for" /\ handle_class' = "invalid") =>
           /\ products' = products
           /\ collected_urls' = collected_urls
           /\ collected_count' = collected_count
           /\ new_items_found' = new_items_found
           /\ no_new_items_count' = no_new_items_count
           /\ fault_caught' = fault_caught
           /\ idx' = idx + 1
           /\ pc' = "for"]_vars

C9_Witness ==
    /\ pc = "for"
    /\ handle_class = "invalid"
    /\ idx <= n_items
    /\ collected_count < max_items

\* C10: the extracted price is the second fragment when there are two or
\* more, the only fragment when there is one, None when there is none.
C10_PriceTieBreak ==
    (pc = "extracted" /\ ~ex_result.raised) =>
        LET f == ex_item.prices
            price == ex_result.data.price
        IN /\ Len(f) >= 2 => price = f[2]
           /\ Len(f) = 1 => price = f[1]
           /\ Len(f) = 0 => price = None

C10_Witness ==
    /\ pc = "extracted"
    /\ ex_item.prices = <<"-10%", "9,900">>
    /\ ex_result.data.price = "9,900"

\* A source that was found and has a value.
IsSource(img) == img # NoneSrc /\ img # NoSuchSrc

NoQuery(q) == \A i \in 1..Len(q) : q[i] # "?"

\* C11: the stored image_url is the source up to, not including, its first
\* '?': it holds no '?', it is the source itself when the source holds none,
\* and normalizing it again changes nothing.
C11_ImageNormalized ==
    (pc = "extracted" /\ ~ex_result.raised /\ IsSource(ex_item.img)) =>
        LET src == ex_item.img
            out == ex_result.data.image_url
        IN /\ Len(out) <= Len(src)
           /\ out = SubSeq(src, 1, Len(out))
           /\ NoQuery(out)
           /\ Len(out) < Len(src) => src[Len(out) + 1] = "?"
           /\ NoQuery(src) => out = src
           /\ ImageOf(out) = out

C11_Witness ==
    /\ pc = "extracted"
    /\ ex_item.img = <<"a", "?">>
    /\ ex_result.data.image_url = <<"a">>

FieldKeys == {"product_url", "brand_name", "product_name", "price",
              "image_url"}

\* What each of the five fields must be: None when its lookup finds
\* nothing, what the lookup gives otherwise.
FieldsResolved(item, rec) ==
    /\ DOMAIN rec = FieldKeys
    /\ rec.product_url =
           IF item.link = NoSuchElement THEN None ELSE item.link
    /\ rec.brand_name =
           IF item.brand = NoSuchElement THEN None ELSE item.brand
    /\ rec.product_name =
           IF item.name = NoSuchElement THEN None ELSE item.name
    /\ item.prices = <<>> => rec.price = None
    /\ item.prices # <<>> => rec.price # None
    /\ item.img \in {NoSuchSrc, NoneSrc} => rec.image_url = NoneSrc
    /\ IsSource(item.img) => rec.image_url # NoneSrc

C15_StallCounter ==
    [][/\ no_new_items_count' = empty_scans'
       /\ no_new_items_count' \in 0..StallThreshold
       /\ (pc = "eval" /\ pc' # "eval") =>
              IF Len(products) > scan_base
              THEN no_new_items_count' = 0
              ELSE no_new_items_count' = no_new_items_count + 1
       /\ pc # "eval" => no_new_items_count' = no_new_items_count]_vars

C15_Witness ==
    /\ pc = "scroll"
    /\ Len(products) = 1
    /\ no_new_items_count = 2
    /\ empty_scans = 2

C17_ScrollMonotone ==
    [][target_position' >= target_position]_vars

\* C18: in every state collected_urls is the set of product_url values of
\* products, and collected_count, len(products) and the size of
\* collected_urls are equal.
C18_IndexConsistency ==
    /\ collected_urls = ProductUrls
    /\ collected_count = Len(products)
    /\ Cardinality(collected_urls) = Len(products)

\* C19 as stated: the file changes only in the write after the loop, a run
\* that ended its loop has the returned list in the file, and a run that
\* caught a fault has written nothing.
C19_HandOffOrNothing ==
    [][/\ output_file' # output_file => (pc = "save" /\ output_file = Absent)
       /\ (pc' = "returned" /\ outcome' # "none") =>
              output_file' = Written(products')
       /\ fault_caught' => output_file' = Absent]_vars

\* C19 as amended: the file changes only in the one write after the loop
\* has ended; a run that returns without a caught fault has ended its loop
\* and the file holds the returned list; a fault raised before the write
\* leaves the file untouched; a fault raised by the write itself is caught
\* and can leave the file empty or partial, never with a full list.
C19_HandOff ==
    [][/\ output_file' # output_file => (pc = "save" /\ output_file = Absent)
       /\ pc' \in LoopPcs \cup {"setup", "load", "save"} =>
              output_file' = Absent
       /\ (pc' = "returned" /\ ~fault_caught') =>
              /\ outcome' # "none"
              /\ output_file' = Written(products')
       /\ (pc' = "except" /\ pc # "save") => output_file' = Absent
       /\ fault_caught' => output_file' \in {Absent, Partial}]_vars

C19_Witness ==
    /\ pc = "returned"
    /\ ~fault_caught
    /\ Len(products) = 2
    /\ output_file = Written(products)

\* What is left of the scan budget with len records collected and count
\* empty scans in a row: max_items - len scans that add records, each
\* preceded by fewer than StallThreshold that add none.
ScanMeasure(len, count) ==
    (max_items - len) * StallThreshold + (StallThreshold - count)

\* C20: the loop ends after finitely many scans: every scan that adds
\* records adds at least one and the list never exceeds max_items, so at
\* most max_items scans add records; while the loop runs fewer than
\* StallThreshold scans in a row have added nothing; hence every evaluated
\* scan leaves ScanMeasure lower than it was when the scan began, never
\* negative, and the run leaves the loop.
C20_Termination ==
    /\ <>(pc \notin LoopPcs \cup {"setup", "load"})
    /\ [](/\ Len(products) <= max_items
          /\ (pc = "eval" /\ new_items_found > 0) =>
                 Len(products) = scan_base + new_items_found
          /\ pc \in LoopPcs => empty_scans <= StallThreshold
          /\ pc \in {"while", "scan", "for"} =>
                 empty_scans <= StallThreshold - 1)
    /\ [][(pc = "eval" /\ pc' # "eval") =>
              /\ ScanMeasure(Len(products'), no_new_items_count')
                     < ScanMeasure(scan_base, no_new_items_count)
              /\ ScanMeasure(Len(products'), no_new_items_count') >= 0]_vars

C20_Witness ==
    /\ pc = "save"
    /\ outcome = "exhausted"
    /\ max_items = MaxTarget
    /\ Len(products) = MaxTarget - 1
    /\ empty_scans = StallThreshold

Indexed == main_pc \in {"persist", "submit", "collect", "returned"}

\* C13: once main has indexed the list, the item at position i of the input
\* file has index i whatever index it had; no download is submitted before
\* the indexed list is in the input file; and the only files the run
\* touches are i.jpg and i.part for a position i, i.jpg receiving nothing
\* but the image of the item at position i.
C13_GoldenIndexing ==
    /\ Indexed =>
           \A i \in 1..Len(data) :
               data[i].index = i /\ data[i].image_url = UrlPool[i]
    /\ tasks # <<>> => (Indexed /\ in_file = Written(data))
    /\ \A k \in 1..Len(tasks) : tasks[k] = data[k]
    /\ \A j \in FileIdx :
           /\ files[j] \notin {Absent, FileOld} =>
                  j \in 1..Len(data) /\ files[j] = Image(data[j].image_url)
           /\ parts[j] # Absent =>
                  /\ j \in 1..Len(data)
                  /\ parts[j] \in {Partial, Image(data[j].image_url)}

C13_Witness ==
    /\ main_pc = "returned"
    /\ Len(data) = 2
    /\ in_file = Written(data)
    /\ files[1] = Image("url1")
    /\ files[2] = Image("url2")
    /\ files[3] = Absent

\* C14: in a run without --force a final file that exists is never
\* requested again and never changed, so a run over a directory that has
\* every final file requests nothing and returns 0; in a run with --force
\* every call makes its request whether or not the final file exists, and
\* each call that succeeds has put the fresh image in the place of the
\* final file.
C14_RerunSafety ==
    [][/\ ~force =>
              \A j \in FileIdx :
                  files[j] # Absent =>
                      /\ files'[j] = files[j]
                      /\ (j \in requested') = (j \in requested)
       /\ (main_pc' = "returned" /\ ~force'
               /\ \A i \in 1..Len(data') : files'[i] = FileOld) =>
              requested' = {} /\ main_ret' = 0
       /\ force' =>
              \A k \in 1..Len(tasks') :
                  task_pc'[k] = "done" =>
                      /\ tasks'[k].index \in requested'
                      /\ task_err'[k] = None =>
                             files'[tasks'[k].index] =
                                 Image(tasks'[k].image_url)]_vars

C14_Witness ==
    /\ main_pc = "returned"
    /\ ~force
    /\ Len(data) = 2
    /\ files[1] = FileOld
    /\ files[2] = FileOld
    /\ requested = {}
    /\ main_ret = 0

\* C21: when the record that brings collected_count to a multiple of
\* ProgressEvery has no product_name, the progress print raises and is
\* caught; that step has appended the record exactly once, put its key in
\* collected_urls, and added exactly 1 to collected_count and to
\* new_items_found; the for loop goes on with the next handle; and no record
\* is in products twice.
C21_ProgressFaultHarmless ==
    [][/\ (Len(products') > Len(products)
               /\ collected_count' % ProgressEvery = 0
               /\ product_data'.product_name = None) =>
              handle_class' = "print_fault"
       /\ handle_class' = "print_fault" =>
              /\ product_data'.product_name = None
              /\ products' = Append(products, product_data')
              /\ product_url' \notin collected_urls
              /\ collected_urls' = collected_urls \cup {product_url'}
              /\ collected_count' = collected_count + 1
              /\ collected_count' % ProgressEvery = 0
              /\ new_items_found' = new_items_found + 1
              /\ pc' = "for"
              /\ idx' = idx + 1
       /\ collected_count' = Len(products')
       /\ new_items_found' = Len(products')
       /\ \A i, j \in 1..Len(products') :
              products'[i] = products'[j] => i = j]_vars

C21_Witness ==
    /\ pc = "for"
    /\ Len(products) = ProgressEvery + 1
    /\ products[ProgressEvery].product_name = None
    /\ collected_count = ProgressEvery + 1
    /\ new_items_found = ProgressEvery + 1
    /\ Cardinality(collected_urls) = ProgressEvery + 1

\* The call k has returned an error: lines 58-59.
Failed(k) == task_pc[k] = "done" /\ task_err[k] # None

\* The parts of C22 about the files, as one step: no two calls have the
\* same idx, hence the same .part or .jpg path; a final file changes only by
\* the rename of a completely written .part; a call that fails leaves every
\* final file as it is, and the final file of a failed call is as it was
\* before the run; and when main returns every item has had its call, which
\* made its request unless the final file was there and --force was not
\* given.
WorkersIsolatedStep ==
    /\ \A k, j \in 1..Len(tasks') :
           tasks'[k].index = tasks'[j].index => k = j
    /\ \A j \in FileIdx :
           files'[j] # files[j] =>
               /\ parts[j] \notin {Absent, Partial}
               /\ files'[j] = parts[j]
               /\ parts'[j] = Absent
    /\ \A k \in 1..Len(tasks) :
           (task_pc[k] # "done" /\ task_pc'[k] = "done"
                /\ task_err'[k] # None) => files' = files
    /\ \A k \in 1..Len(tasks') :
           (task_pc'[k] = "done" /\ task_err'[k] # None) =>
               files'[tasks'[k].index] \in {Absent, FileOld}
    /\ main_pc' = "returned" =>
           /\ Len(tasks') = Len(data')
           /\ \A k \in 1..Len(tasks') :
                  /\ task_pc'[k] = "done"
                  /\ \/ tasks'[k].index \in requested'
                     \/ ~force' /\ files'[tasks'[k].index] = FileOld

\* C22 without its last part: under every interleaving of the workers the
\* files are handled as C22 says.
C22_WorkersIsolated == [][WorkersIsolatedStep]_vars

\* C22: under every interleaving of the workers the files are handled as
\* above, and main returns 1 exactly when a call has failed.
C22_Concurrency ==
    [][/\ WorkersIsolatedStep
       /\ main_pc' = "returned" =>
              (main_ret' = 1 <=> \E k \in 1..Len(tasks') : Failed(k)')]_vars

\* The positions iter_images has yielded so far.
Yielded == {i \in 1..(pos - 1) : ValidUrl(items[i].image_url)}

\* C23: within one category, the items iter_images yields with the same
\* file extension have distinct indices, hence distinct output paths; from
\* an empty images directory no item is skipped because its path exists;
\* every yielded item is attempted whatever happened to the others, and the
\* loop ends only when the list is exhausted.
C23_FileIdentity ==
    /\ \A i, j \in Yielded :
           (i # j /\ ExtOf(items[i].image_url) = ExtOf(items[j].image_url))
               => /\ IndexOf(items[i], i) # IndexOf(items[j], j)
                  /\ OutPath(items[i], i) # OutPath(items[j], j)
    /\ skips = {}
    /\ total = Cardinality(Yielded)
    /\ img_pc = "done" => pos = Len(items) + 1

====
